---- MODULE Spec2Model ----
(***************************************************************************)
(* A model of padmapper_scraper/web_scraper.py.                            *)
(*                                                                         *)
(* The module has several entry points; `entry` says which one a behaviour *)
(* runs: main (discovery, the per-listing loop, the aggregate files),      *)
(* extract_listing_details, extract_search_results, parse_listing_details. *)
(* The browser, the network and the file system are the environment: each  *)
(* call into them is a nondeterministic choice over its outcomes.          *)
(***************************************************************************)
EXTENDS Integers, Sequences, FiniteSets, TLC

(* ------------------------------------------------------------------ *)
(* Bounds of the model                                                *)
(* ------------------------------------------------------------------ *)
MaxLimit == 3
MaxHeight == 2
MaxAnchors == 3
MaxScrollAnchors == 2
MaxFloorplans == 2
MaxUnits == 3
MaxClock == 1

(* ------------------------------------------------------------------ *)
(* Program constants                                                  *)
(* ------------------------------------------------------------------ *)
max_attempts == 3
max_scroll_attempts == 10
max_retries == 3
retry_delay == 5

(* ------------------------------------------------------------------ *)
(* Python values: None and optional arguments                         *)
(* ------------------------------------------------------------------ *)
NoneV == <<>>
Some(x) == <<x>>
\* `if limit:` : None and 0 are falsy
Truthy(opt) == opt # NoneV /\ opt[1] # 0

Min(a, b) == IF a < b THEN a ELSE b

\* s[:n] for n >= 0
Take(s, n) == SubSeq(s, 1, Min(n, Len(s)))

\* result[:limit] when `if limit:` holds, else result unchanged
ApplyLimit(s, opt) == IF Truthy(opt) THEN Take(s, opt[1]) ELSE s

\* the lists over S of the length of S, repeats allowed
OrdersWithRepeats(S) == [1..Cardinality(S) -> S]

\* list(a_set): the iteration order of a set of strings is arbitrary
Orders(S) == { s \in [1..Cardinality(S) -> S] :
                 \A i, j \in 1..Cardinality(S) : i # j => s[i] # s[j] }

Range(s) == { s[i] : i \in 1..Len(s) }

(* ------------------------------------------------------------------ *)
(* URLs and anchors                                                   *)
(* A href is a path (its segments) that is site-relative ("/a/b") or  *)
(* absolute (with a host); a URL is a host and the path's segments.   *)
(* ------------------------------------------------------------------ *)
SiteHost == "www.padmapper.com"

RelHref(segs) == [abs |-> FALSE, host |-> "", segs |-> segs]
AbsHref(host, segs) == [abs |-> TRUE, host |-> host, segs |-> segs]

\* the anchors a page may hold: a card link, a deeper listing path with the
\* same last segment, a building link, an absolute link to the first
\* listing, a card without href, a link that is no listing
AnchorPool ==
  { [card |-> TRUE,  href |-> Some(RelHref(<<"apartments", "a1">>))],
    [card |-> FALSE, href |-> Some(RelHref(<<"apartments", "x", "a1">>))],
    [card |-> FALSE, href |-> Some(RelHref(<<"buildings", "p7", "a2">>))],
    [card |-> FALSE, href |-> Some(AbsHref(SiteHost, <<"apartments", "a1">>))],
    [card |-> TRUE,  href |-> NoneV],
    [card |-> FALSE, href |-> Some(RelHref(<<"about">>))] }

\* the documents a page load may show: the anchors in document order
Pages == UNION { [1..n -> AnchorPool] : n \in 0..MaxAnchors }

\* the documents the browser may show after a scroll
ScrollPages == UNION { [1..n -> AnchorPool] : n \in 0..MaxScrollAnchors }

Heights == 1..MaxHeight

\* '/dir/' in href
HrefContains(h, dir) == \E i \in 1..(Len(h.segs) - 1) : h.segs[i] = dir

\* href.startswith("/apartments/")
StartsWithApartments(h) ==
  ~h.abs /\ Len(h.segs) >= 2 /\ h.segs[1] = "apartments"

\* f"https://www.padmapper.com{href}"
SiteUrl(h) == [host |-> SiteHost, segs |-> h.segs]

\* f"https://www.padmapper.com{href}" if href.startswith('/') else href
FallbackUrl(h) == IF ~h.abs THEN SiteUrl(h) ELSE [host |-> h.host, segs |-> h.segs]

\* url.split('/')[-1]
ListingId(url) == url.segs[Len(url.segs)]

\* the text after a leading "p" of a path segment, None when there is none
AfterP(seg) == CASE seg = "p7" -> Some("7")
                 [] seg = "p"  -> Some("")
                 [] OTHER      -> NoneV

\* building_id: url.split("/buildings/p")[1].split("/")[0] when
\* "/buildings/p" is in url, else None
BuildingId(url) ==
  LET hits == { i \in 1..(Len(url.segs) - 1) :
                  url.segs[i] = "buildings" /\ AfterP(url.segs[i + 1]) # NoneV }
  IN  IF hits = {} THEN NoneV
      ELSE AfterP(url.segs[(CHOOSE i \in hits : \A j \in hits : i <= j) + 1])

\* `if building_id:` : None and '' are falsy
HasBuildingId(url) == BuildingId(url) # NoneV /\ BuildingId(url)[1] # ""

IsCard(a) == a.card
IsApartmentsLink(a) == a.href # NoneV /\ HrefContains(a.href[1], "apartments")
IsBuildingsLink(a) == a.href # NoneV /\ HrefContains(a.href[1], "buildings")
IsListingSelector(a) == IsCard(a) \/ IsApartmentsLink(a)

\* soup.select(LISTING_SELECTOR), or soup.select("a[href*='/apartments/']")
\* when that is empty: the anchors of the page, in document order
ScrollLinks(page) ==
  LET links == SelectSeq(page, IsListingSelector)
  IN  IF links = <<>> THEN SelectSeq(page, IsApartmentsLink) ELSE links

\* the hrefs the scroll loop adds: `if href and href.startswith("/apartments/")`
ScrollUrlsSeq(page) ==
  LET links == ScrollLinks(page)
      F[i \in 0..Len(links)] ==
        IF i = 0 THEN <<>>
        ELSE IF links[i].href # NoneV /\ StartsWithApartments(links[i].href[1])
             THEN Append(F[i - 1], SiteUrl(links[i].href[1]))
             ELSE F[i - 1]
  IN  F[Len(links)]

\* the list the fallback builds over its three selectors, duplicates included
FallbackKeep(a) ==
  a.href # NoneV /\ (HrefContains(a.href[1], "apartments")
                      \/ HrefContains(a.href[1], "buildings"))

FallbackUrlsOf(links) ==
  LET F[i \in 0..Len(links)] ==
        IF i = 0 THEN <<>>
        ELSE IF FallbackKeep(links[i])
             THEN Append(F[i - 1], FallbackUrl(links[i].href[1]))
             ELSE F[i - 1]
  IN  F[Len(links)]

FallbackUrlsSeq(page) ==
  FallbackUrlsOf(SelectSeq(page, IsApartmentsLink))
    \o FallbackUrlsOf(SelectSeq(page, IsCard))
    \o FallbackUrlsOf(SelectSeq(page, IsBuildingsLink))

\* adding the elements of t to the set S adds one that is already there
AddsAgain(S, t) == Len(t) > Cardinality(S \cup Range(t)) - Cardinality(S)

\* s with the elements of t it does not hold yet appended, in t's order
AppendNew(s, t) ==
  LET F[i \in 0..Len(t)] ==
        IF i = 0 THEN s
        ELSE IF t[i] \in Range(F[i - 1]) THEN F[i - 1] ELSE Append(F[i - 1], t[i])
  IN  F[Len(t)]

(* ------------------------------------------------------------------ *)
(* Python / JSON values, tagged by type; a str is its characters      *)
(* ------------------------------------------------------------------ *)
PyNone == [t |-> "none"]
PyBool(b) == [t |-> "bool", b |-> b]
PyInt(n) == [t |-> "int", n |-> n]
PyStr(cs) == [t |-> "str", s |-> cs]
PyList(xs) == [t |-> "list", xs |-> xs]
PyDict(d) == [t |-> "dict", d |-> d]

EmptyDict == [k \in {} |-> PyNone]

\* bool(v)
PyTruthy(v) ==
  CASE v.t = "none" -> FALSE
    [] v.t = "bool" -> v.b
    [] v.t = "int"  -> v.n # 0
    [] v.t = "str"  -> v.s # <<>>
    [] v.t = "list" -> v.xs # <<>>
    [] v.t = "dict" -> DOMAIN v.d # {}

\* d.get(k, default) on a dict's items
Get(d, k, default) == IF k \in DOMAIN d THEN d[k] ELSE default

\* whether len(v) is defined
HasLen(v) == v.t \in {"str", "list", "dict"}

\* len(v)
PyLen(v) ==
  CASE v.t = "str"  -> Len(v.s)
    [] v.t = "list" -> Len(v.xs)
    [] v.t = "dict" -> Cardinality(DOMAIN v.d)
    [] OTHER        -> 0

DigitChar(d) == CASE d = 0 -> "0" [] d = 1 -> "1" [] d = 2 -> "2" [] d = 3 -> "3"
                  [] d = 4 -> "4" [] d = 5 -> "5" [] d = 6 -> "6" [] d = 7 -> "7"
                  [] d = 8 -> "8" [] d = 9 -> "9"

\* the decimal digits of n >= 0
RECURSIVE Digits(_)
Digits(n) == IF n < 10 THEN <<DigitChar(n)>>
             ELSE Digits(n \div 10) \o <<DigitChar(n % 10)>>

\* the value itself where str(v) is due
StrLeavesValue(v) == v

\* str(v) of None, a bool, an int or a str
Str(v) ==
  CASE v.t = "none" -> PyStr(<<"N", "o", "n", "e">>)
    [] v.t = "bool" -> PyStr(IF v.b THEN <<"T", "r", "u", "e">>
                             ELSE <<"F", "a", "l", "s", "e">>)
    [] v.t = "int"  -> PyStr(IF v.n < 0 THEN <<"-">> \o Digits(0 - v.n)
                             ELSE Digits(v.n))
    [] OTHER        -> v

(* ------------------------------------------------------------------ *)
(* parse_listing_details                                              *)
(* The content is what the parser reads of a document: the script     *)
(* holding window.__PRELOADED_STATE__ and the elements the HTML       *)
(* fallbacks look for.                                                *)
(* ------------------------------------------------------------------ *)
\* json.loads(script.string.split('window.__PRELOADED_STATE__ = ')[1]
\*            .split(';')[0]): the state, or None when a script lacks the
\* marker, the text is no JSON, or a ';' inside the JSON text cuts it short
LoadState(script) ==
  IF script.k = "json" /\ ~script.semi THEN Some(script.v) ELSE NoneV

\* the listing dict as initialised
DefaultListing(now) ==
  [k \in {"id", "url", "title", "price", "bedrooms", "bathrooms", "square_feet",
          "address", "description", "amenities", "image_count", "last_scraped",
          "available_units", "floorplans"} |->
     CASE k \in {"amenities", "available_units", "floorplans"} -> PyList(<<>>)
       [] k = "image_count" -> PyInt(0)
       [] k = "last_scraped" -> PyInt(now)
       [] OTHER -> PyNone]

\* the Floorplan child built from one floorplan entry
MakeFloorplan(fp) ==
  PyDict([k \in {"id", "name", "bedrooms", "bathrooms", "min_square_feet",
                 "max_square_feet", "min_price", "max_price",
                 "available_units_count"} |->
            CASE k = "id" -> Str(Get(fp.d, "id", PyNone))
              [] k = "available_units_count" ->
                   Get(fp.d, "available_units_count", PyInt(0))
              [] OTHER -> Get(fp.d, k, PyNone)])

\* the Unit child built from one available unit
MakeUnit(u) ==
  PyDict([k \in {"floorplan_id", "title", "bedrooms", "bathrooms", "square_feet",
                 "price", "available_date", "is_available", "features",
                 "unit_amenities", "lease_terms"} |->
            CASE k = "floorplan_id" -> Str(Get(u.d, "floorplan_id", PyNone))
              [] k = "is_available" -> PyBool(TRUE)
              [] k \in {"features", "unit_amenities"} -> Get(u.d, k, PyList(<<>>))
              [] k = "lease_terms" ->
                   PyDict([j \in {"min_lease_days", "max_lease_days"} |->
                             Get(u.d, j, PyNone)])
              [] OTHER -> Get(u.d, k, PyNone)])

\* `if unit.get('is_available', False)`
UnitAvailable(u) == PyTruthy(Get(u.d, "is_available", PyBool(FALSE)))

\* `if 'floorplan_count' in current_listing`
HasFloorplanData(cl) == "floorplan_count" \in DOMAIN cl.d

AllDicts(v) == \A i \in 1..Len(v.xs) : v.xs[i].t = "dict"

MapSeq(xs, F(_)) == [i \in 1..Len(xs) |-> F(xs[i])]

\* the first listable: listables['listables'][0] when 'listables' is in
\* listables and the list is not empty. [found, raised, value]
FirstListable(state) ==
  LET listables == Get(state.d, "listables", PyDict(EmptyDict))
      NotFound == [found |-> FALSE, raised |-> FALSE, v |-> PyNone]
      Raised == [found |-> FALSE, raised |-> TRUE, v |-> PyNone]
  IN  IF listables.t \in {"none", "int", "bool"} THEN Raised
      ELSE IF listables.t # "dict" \/ "listables" \notin DOMAIN listables.d
      THEN NotFound
      ELSE LET inner == listables.d["listables"]
           IN  IF ~HasLen(inner) THEN Raised
               ELSE IF PyLen(inner) = 0 THEN NotFound
               ELSE IF inner.t = "list"
               THEN [found |-> TRUE, raised |-> FALSE, v |-> inner.xs[1]]
               ELSE Raised

\* the listing after the primary path (lines 884-937), for a truthy first
\* listable. [raised, listing]
FromListable(cl, listing) ==
  LET image_ids == Get(cl.d, "image_ids", PyList(<<>>))
      fps == IF HasFloorplanData(cl)
             THEN Get(cl.d, "floorplans", PyList(<<>>)) ELSE PyList(<<>>)
      units == Get(cl.d, "units", PyList(<<>>))
      Raised == [raised |-> TRUE, listing |-> listing]
  IN  IF cl.t # "dict" THEN Raised
      ELSE IF ~HasLen(image_ids) THEN Raised
      ELSE IF fps.t # "list" \/ ~AllDicts(fps) THEN Raised
      ELSE IF units.t # "list" \/ ~AllDicts(units) THEN Raised
      ELSE [raised |-> FALSE,
            listing |->
              [k \in DOMAIN listing |->
                 CASE k = "id" -> Str(Get(cl.d, "listing_id", PyNone))
                   [] k = "url" -> Get(cl.d, "padmapper_url", PyNone)
                   [] k = "title" -> Get(cl.d, "title", PyNone)
                   [] k = "address" -> Get(cl.d, "address", PyNone)
                   [] k = "price" -> Str(Get(cl.d, "max_price", PyNone))
                   [] k = "bedrooms" -> Str(Get(cl.d, "max_bedrooms", PyNone))
                   [] k = "bathrooms" -> Str(Get(cl.d, "max_bathrooms", PyNone))
                   [] k = "square_feet" -> Str(Get(cl.d, "max_square_feet", PyNone))
                   [] k = "description" -> Get(cl.d, "short_description", PyNone)
                   [] k = "amenities" -> Get(cl.d, "amenity_tags", PyList(<<>>))
                   [] k = "image_count" -> PyInt(PyLen(image_ids))
                   [] k = "floorplans" -> PyList(MapSeq(fps.xs, MakeFloorplan))
                   [] k = "available_units" ->
                        PyList(MapSeq(SelectSeq(units.xs, UnitAvailable), MakeUnit))
                   [] OTHER -> listing[k]]]

\* the listing after the primary path (lines 859-937). [raised, listing]
PrimaryPath(content, now) ==
  LET st == LoadState(content.script)
      listing == DefaultListing(now)
      Same == [raised |-> FALSE, listing |-> listing]
      Raised == [raised |-> TRUE, listing |-> listing]
  IN  IF st = NoneV THEN Same
      ELSE IF ~PyTruthy(st[1]) THEN Same
      ELSE IF st[1].t # "dict" THEN Raised
      ELSE LET first == FirstListable(st[1])
           IN  IF first.raised THEN Raised
               ELSE IF ~first.found \/ ~PyTruthy(first.v) THEN Same
               ELSE FromListable(first.v, listing)

\* fallbacks that put the time of the call into address
HtmlFallbacksTimedAddress(content, listing) ==
  [k \in DOMAIN listing |->
     IF k = "address" THEN listing["last_scraped"] ELSE listing[k]]

\* the HTML fallbacks (lines 939-954) for title, address and amenities
HtmlFallbacks(content, listing) ==
  [k \in DOMAIN listing |->
     CASE k = "title" /\ ~PyTruthy(listing[k]) /\ content.title # NoneV ->
            PyStr(content.title[1])
       [] k = "address" /\ ~PyTruthy(listing[k]) /\ content.address # NoneV ->
            PyStr(content.address[1])
       [] k = "amenities" /\ ~PyTruthy(listing[k]) /\ content.amenities # NoneV ->
            PyList(content.amenities[1])
       [] OTHER -> listing[k]]

\* `v is not None and v != [] and v != ''`
KeepField(v) == v # PyNone /\ v # PyList(<<>>) /\ v # PyStr(<<>>)

\* {k: v for k, v in listing.items() if ...}
CleanListing(listing) ==
  [k \in { j \in DOMAIN listing : KeepField(listing[j]) } |-> listing[k]]

\* the log line after the clean-up reads listing['available_units'] and
\* listing['floorplans']: a KeyError when the clean-up dropped one
FinalLogRaises(listing) ==
  "available_units" \notin DOMAIN listing \/ "floorplans" \notin DOMAIN listing

\* the record before the clean-up. [raised, listing]
RawListing(content, now) ==
  LET p == PrimaryPath(content, now)
  IN  IF p.raised THEN p
      ELSE [raised |-> FALSE, listing |-> HtmlFallbacks(content, p.listing)]

\* parse_listing_details(html_content): Some(listing), or None when anything
\* raised
ParseListing(content, now) ==
  LET raw == RawListing(content, now)
  IN  IF raw.raised THEN NoneV
      ELSE IF FinalLogRaises(CleanListing(raw.listing)) THEN NoneV
      ELSE Some(CleanListing(raw.listing))

\* whether a statement of the try block raises
ParseRaises(content, now) ==
  \/ RawListing(content, now).raised
  \/ FinalLogRaises(CleanListing(RawListing(content, now).listing))

\* how the function is left: `except Exception` returns None, so it
\* returns also when a statement raised
ParseExitReraises(raised) == IF raised THEN "raised" ELSE "returned"
ParseExit(raised) == "returned"

(* ------------------------------------------------------------------ *)
(* The documents parse_listing_details is given                       *)
(* ------------------------------------------------------------------ *)
Chars(x) == <<x>>

FloorplanEntry(i) ==
  PyDict([k \in {"id", "name"} |->
            IF k = "id" THEN PyInt(i) ELSE PyStr(Chars("F"))])

UnitEntry(i, available) ==
  PyDict([k \in {"floorplan_id", "title", "is_available"} |->
            CASE k = "floorplan_id" -> PyInt(1)
              [] k = "title" -> PyInt(i)
              [] OTHER -> PyBool(available)])

TitleOpts == {NoneV, Some(PyStr(<<>>)), Some(PyStr(Chars("T")))}
PriceOpts == {NoneV, Some(PyInt(2500))}
BedroomOpts == {PyInt(2), PyInt(0)}
FloorplanOpts ==
  {NoneV} \cup { Some(PyList([i \in 1..n |-> FloorplanEntry(i)])) : n \in 0..MaxFloorplans }
UnitOpts ==
  {NoneV} \cup
  { Some(PyList([i \in DOMAIN flags |-> UnitEntry(i, flags[i])])) :
      flags \in UNION { [1..n -> BOOLEAN] : n \in 0..MaxUnits } }

Keys(title, price, fc, fps, us) ==
  {"listing_id", "padmapper_url", "max_bedrooms", "image_ids"}
    \cup (IF title # NoneV THEN {"title"} ELSE {})
    \cup (IF price # NoneV THEN {"max_price"} ELSE {})
    \cup (IF fc THEN {"floorplan_count"} ELSE {})
    \cup (IF fps # NoneV THEN {"floorplans"} ELSE {})
    \cup (IF us # NoneV THEN {"units"} ELSE {})

MkListable(title, price, beds, fc, fps, us) ==
  PyDict([k \in Keys(title, price, fc, fps, us) |->
            CASE k = "listing_id" -> PyInt(7)
              [] k = "padmapper_url" -> PyStr(Chars("u"))
              [] k = "max_bedrooms" -> beds
              [] k = "image_ids" -> PyList(<<PyInt(1), PyInt(2)>>)
              [] k = "title" -> title[1]
              [] k = "max_price" -> price[1]
              [] k = "floorplan_count" -> PyInt(IF fps = NoneV THEN 0 ELSE Len(fps[1].xs))
              [] k = "floorplans" -> fps[1]
              [] OTHER -> us[1]])

ListablePool ==
  { MkListable(t, p, b, fc, fps, us) :
      t \in TitleOpts, p \in PriceOpts, b \in BedroomOpts, fc \in BOOLEAN,
      fps \in FloorplanOpts, us \in UnitOpts }

\* {"listables": {"listables": xs}}
StateOf(xs) ==
  PyDict([k \in {"listables"} |->
            PyDict([j \in {"listables"} |-> PyList(xs)])])

\* the embedded states: none, unparsable text, JSON that is no object, an
\* empty object, an object without listables, without a listable, with one
Scripts ==
  { [k |-> "absent"], [k |-> "garbage"] }
    \cup { [k |-> "json", v |-> v, semi |-> FALSE] :
             v \in { PyList(<<PyInt(1)>>), PyInt(0), PyDict(EmptyDict),
                     PyDict([k \in {"other"} |-> PyInt(1)]),
                     PyDict([k \in {"listables"} |-> PyNone]),
                     PyDict([k \in {"listables"} |-> PyDict(EmptyDict)]),
                     StateOf(<<>>), StateOf(<<PyDict(EmptyDict)>>) } }
    \cup { [k |-> "json", v |-> StateOf(<<l>>), semi |-> semi] :
             l \in ListablePool, semi \in BOOLEAN }

Contents ==
  { [script |-> sc, title |-> t, address |-> NoneV, amenities |-> am] :
      sc \in Scripts,
      t \in {NoneV, Some(Chars("H"))},
      am \in {NoneV, Some(<<PyStr(Chars("g"))>>)} }

(* ------------------------------------------------------------------ *)
(* State                                                              *)
(* ------------------------------------------------------------------ *)
VARIABLES
  entry,            \* the entry point this behaviour runs
  limit,            \* main's / discovery's limit argument (None or Some(n))
  use_fallback,     \* main's use_fallback argument
  liveDrivers,      \* browser processes launched and not yet quit
  \* --- main
  mpc,              \* where main is
  ret,              \* what main returned: "none" (still running), "True",
                    \* "False", "raised"
  listing_urls,     \* main's listing_urls
  idx,              \* number of URLs the loop has gone through
  results,          \* main's results (the batch)
  files,            \* the listing files in run_dir
  aggFiles,         \* the aggregate files written, in order
  cur,              \* what happened in the last loop iteration
  nFailed,          \* number of URLs whose acquisition yielded nothing
  \* --- schedule.py: run_scraper_job
  exit_code,        \* what os.system(command) returned, None while it runs
  jobLog,           \* what the job logged: "none", "error", "success"
  \* --- extract_listing_urls / get_listing_urls_fallback
  dpc,              \* where discovery is
  attempt,          \* the load loop's attempt
  seen,             \* the listing_urls set of extract_listing_urls
  firstSeen,        \* the URLs in the order they were first added
  readded,          \* whether a URL was added that had been added before
  scroll_attempts,
  previous_height,
  loads,            \* driver.get(BASE_URL) calls
  cookieClears,     \* driver.delete_all_cookies() calls
  secondaryWaits,   \* waits for the alternative selector
  dresult,          \* what discovery returned
  \* --- extract_listing_details
  epc,              \* where extract_listing_details is
  driverGiven,      \* whether the caller passed a driver
  should_close_driver,
  eattempt,         \* the retry loop's attempt
  wait_time,        \* None while the local is unbound
  outcomes,         \* how each attempt so far ended
  navs,             \* driver.get(url) calls
  backoffs,         \* time.sleep(wait_time) calls
  parses,           \* parse_listing_details calls
  eret,             \* "none" (running), "None", "Listing", "raised"
  \* --- extract_search_results
  spc,
  sret,             \* "none" (running), "None", "data"
  statsCalls,       \* log_stats calls
  \* --- parse_listing_details
  ppc,
  content,          \* the html_content argument
  clock,            \* datetime.now()
  pexit,            \* "none" (running), "returned", "raised"
  presult,          \* None, or Some(listing)
  clock2,           \* datetime.now() in a second call on the same content
  presult2,         \* what the second call returned
  \* --- is_protected_page
  ipc,
  finds,            \* what find_elements does for each indicator, in order
  sources,          \* what the two reads of driver.page_source yield
  iexit,            \* "none" (running), "returned", "raised"
  iresult           \* None, or Some(the bool returned)

jobVars == <<exit_code, jobLog>>
mainVars == <<mpc, ret, listing_urls, idx, results, files, aggFiles, cur, nFailed,
              jobVars>>
discVars == <<dpc, attempt, seen, firstSeen, readded, scroll_attempts, previous_height,
              loads, cookieClears, secondaryWaits, dresult>>
argVars == <<entry, limit, use_fallback>>
detVars == <<epc, driverGiven, should_close_driver, eattempt, wait_time,
             outcomes, navs, backoffs, parses, eret>>
searchVars == <<spc, sret, statsCalls>>
parseVars == <<ppc, content, clock, pexit, presult, clock2, presult2>>
protVars == <<ipc, finds, sources, iexit, iresult>>
otherVars == <<detVars, searchVars, parseVars, protVars>>

NoCur == [url |-> NoneV, http |-> "none", browser |-> "none",
          gets |-> 0, protChecks |-> 0, payload |-> NoneV,
          appended |-> FALSE, written |-> FALSE]

Limits == {NoneV} \cup { Some(n) : n \in 0..MaxLimit }

\* setup_driver: it returns a driver, or raises before the browser process
\* exists (the driver download, webdriver.Chrome), or raises after
\* webdriver.Chrome launched it (execute_cdp_cmd, execute_script)
SetupOutcomes == {"ok", "fail_before_launch", "fail_after_launch"}

\* the processes setup_driver leaves running that nobody holds a handle to
SetupLeak(o) == IF o = "fail_after_launch" THEN 1 ELSE 0

(* ------------------------------------------------------------------ *)
(* extract_listing_urls                                               *)
(* ------------------------------------------------------------------ *)
\* `return x` inside the try: the finally clause quits the driver
UrlsReturn(res) ==
  /\ dpc' = "returned"
  /\ dresult' = res
  /\ liveDrivers' = liveDrivers - 1

\* driver = setup_driver(), before the try
UrlsSetup ==
  /\ entry = "main" /\ mpc = "discover" /\ ~use_fallback /\ dpc = "idle"
  /\ \E o \in SetupOutcomes :
       IF o = "ok"
       THEN /\ dpc' = "load"
            /\ liveDrivers' = liveDrivers + 1
       ELSE /\ dpc' = "raised"
            /\ liveDrivers' = liveDrivers + SetupLeak(o)
  /\ UNCHANGED <<otherVars, argVars, mainVars, attempt, seen, firstSeen, readded, scroll_attempts,
                 previous_height, loads, cookieClears, secondaryWaits, dresult>>

\* `if attempt < max_attempts - 1` is false: the timeout was the last one
IsLastAttemptEarly(a) == a >= max_attempts - 2
IsLastAttempt(a) == a >= max_attempts - 1

\* one iteration of `for attempt in range(max_attempts)`
UrlsLoad ==
  /\ dpc = "load"
  /\ loads' = loads + 1
  /\ \E o \in {"ok", "timeout", "error"} :
       CASE o = "ok" ->
              /\ dpc' = "check"
              /\ UNCHANGED <<attempt, cookieClears, secondaryWaits, dresult,
                             liveDrivers>>
         [] o = "error" ->
              /\ UrlsReturn(<<>>)
              /\ UNCHANGED <<attempt, cookieClears, secondaryWaits>>
         [] o = "timeout" /\ ~IsLastAttempt(attempt) ->
              /\ cookieClears' = cookieClears + 1
              /\ attempt' = attempt + 1
              /\ UNCHANGED <<dpc, secondaryWaits, dresult, liveDrivers>>
         [] o = "timeout" /\ IsLastAttempt(attempt) ->
              /\ secondaryWaits' = secondaryWaits + 1
              /\ UNCHANGED <<attempt, cookieClears>>
              /\ \E o2 \in {"ok", "timeout", "error"} :
                   IF o2 = "ok"
                   THEN dpc' = "check" /\ UNCHANGED <<dresult, liveDrivers>>
                   ELSE UrlsReturn(<<>>)
  /\ UNCHANGED <<otherVars, argVars, mainVars, seen, firstSeen, readded, scroll_attempts,
                 previous_height>>

\* page_source, the captcha/cloudflare check, the screenshot, the first height
UrlsCheck ==
  /\ dpc = "check"
  /\ \E o \in {"clean", "blocked", "error"} :
       IF o = "clean"
       THEN /\ dpc' = "scroll"
            /\ \E h \in Heights : previous_height' = h
            /\ UNCHANGED <<dresult, liveDrivers>>
       ELSE /\ UrlsReturn(<<>>)
            /\ UNCHANGED previous_height
  /\ UNCHANGED <<otherVars, argVars, mainVars, attempt, seen, firstSeen, readded, scroll_attempts,
                 loads, cookieClears, secondaryWaits>>

\* the while condition
ScrollCond ==
  /\ IF limit = NoneV THEN TRUE ELSE Cardinality(seen) < limit[1]
  /\ scroll_attempts < max_scroll_attempts

\* the URL lists the documents shown after a scroll yield
ScrollUrlLists == { ScrollUrlsSeq(page) : page \in ScrollPages }

\* the stall counter after an iteration: `scroll_attempts += 1` when the
\* height is unchanged, `scroll_attempts = 0` when it differs
NextScrollAttemptsNoReset(sa, stalled) == IF stalled THEN sa + 1 ELSE sa
NextScrollAttempts(sa, stalled) == IF stalled THEN sa + 1 ELSE 0

\* one iteration of the scroll loop
UrlsScroll ==
  /\ dpc = "scroll" /\ ScrollCond
  /\ \E raised \in BOOLEAN :
       IF raised
       THEN /\ UrlsReturn(<<>>)
            /\ UNCHANGED <<seen, firstSeen, readded, scroll_attempts, previous_height>>
       ELSE \E urls \in ScrollUrlLists, new_height \in Heights :
            LET seen1 == seen \cup Range(urls)
                stalled == new_height = previous_height
                sa1 == NextScrollAttempts(scroll_attempts, stalled)
                brk == IF stalled /\ sa1 >= max_scroll_attempts THEN TRUE
                       ELSE Truthy(limit) /\ Cardinality(seen1) >= limit[1]
            IN  /\ seen' = seen1
                /\ firstSeen' = AppendNew(firstSeen, urls)
                /\ readded' = (readded \/ AddsAgain(seen, urls))
                /\ scroll_attempts' = sa1
                /\ previous_height' = IF stalled THEN previous_height ELSE new_height
                /\ dpc' = IF brk THEN "post" ELSE "scroll"
                /\ UNCHANGED <<dresult, liveDrivers>>
  /\ UNCHANGED <<otherVars, argVars, mainVars, attempt, loads, cookieClears, secondaryWaits>>

\* after the loop: the debug page when nothing was found, list(), the limit
UrlsPost ==
  /\ dpc = "post" \/ (dpc = "scroll" /\ ~ScrollCond)
  /\ \E debugWriteFails \in BOOLEAN, order \in Orders(seen) :
       IF seen = {} /\ debugWriteFails
       THEN UrlsReturn(<<>>)
       ELSE UrlsReturn(ApplyLimit(order, limit))
  /\ UNCHANGED <<otherVars, argVars, mainVars, attempt, seen, firstSeen, readded, scroll_attempts,
                 previous_height, loads, cookieClears, secondaryWaits>>

(* ------------------------------------------------------------------ *)
(* get_listing_urls_fallback                                          *)
(* ------------------------------------------------------------------ *)
FallbackDiscover ==
  /\ entry = "main" /\ mpc = "discover" /\ use_fallback /\ dpc = "idle"
  /\ dpc' = "returned"
  /\ \E o \in {"ok", "status", "error"} :
       IF o = "ok"
       THEN \E page \in Pages :
              LET urls == FallbackUrlsSeq(page)
              IN  /\ seen' = Range(urls)
                  /\ firstSeen' = AppendNew(<<>>, urls)
                  /\ readded' = AddsAgain({}, urls)
                  /\ \E order \in Orders(Range(urls)) :
                       dresult' = ApplyLimit(order, limit)
       ELSE dresult' = <<>> /\ UNCHANGED <<seen, firstSeen, readded>>
  /\ UNCHANGED <<otherVars, argVars, mainVars, liveDrivers, attempt, scroll_attempts,
                 previous_height, loads, cookieClears, secondaryWaits>>

(* ------------------------------------------------------------------ *)
(* main                                                               *)
(* ------------------------------------------------------------------ *)
\* os.makedirs(run_dir), before the try
MainStart ==
  /\ entry = "main" /\ mpc = "start"
  /\ \E mkdirFails \in BOOLEAN :
       IF mkdirFails
       THEN mpc' = "done" /\ ret' = "raised"
       ELSE mpc' = "discover" /\ ret' = ret
  /\ UNCHANGED <<otherVars, argVars, liveDrivers, discVars, listing_urls, idx, results,
                 files, aggFiles, cur, nFailed, jobVars>>

\* listing_urls = ...; `if not listing_urls: return False`; an exception of
\* discovery reaches main's outer handler. Discovery's locals end here.
MainCheckUrls ==
  /\ entry = "main" /\ mpc = "discover" /\ dpc \in {"returned", "raised"}
  /\ IF dpc = "raised" \/ dresult = <<>>
     THEN mpc' = "done" /\ ret' = "False" /\ UNCHANGED listing_urls
     ELSE mpc' = "loop" /\ ret' = ret /\ listing_urls' = dresult
  /\ dpc' = "idle" /\ attempt' = 0 /\ seen' = {} /\ firstSeen' = <<>> /\ readded' = FALSE
  /\ scroll_attempts' = 0 /\ previous_height' = 0
  /\ loads' = 0 /\ cookieClears' = 0 /\ secondaryWaits' = 0 /\ dresult' = <<>>
  /\ UNCHANGED <<otherVars, argVars, liveDrivers, idx, results, files, aggFiles, cur,
                 nFailed, jobVars>>

\* fetch_building_html: (True, text) with a text that may be empty, or
\* (False, None)
HttpOutcomes == {"ok", "empty", "fail"}

\* the browser branch of extract_listing_details_with_html
BrowserOutcomes == SetupOutcomes \cup {"get_error", "timeout"}

\* the driver.get(url) calls of the browser branch: one, and none when
\* setup_driver raised
BrowserGets(b) == IF b \in {"fail_before_launch", "fail_after_launch"} THEN 0 ELSE 1

\* the is_protected_page calls of the browser branch: it makes none
ProtectionChecks(b) == 0

\* a first listable with every field the parser reads from the pool
FullListable ==
  MkListable(Some(PyStr(Chars("T"))), Some(PyInt(2500)), PyInt(2), TRUE,
             Some(PyList(<<FloorplanEntry(1)>>)),
             Some(PyList(<<UnitEntry(1, TRUE)>>)))

\* the non-empty documents a fetch in main may yield: a page without
\* embedded state, a listing page
MainPayloads ==
  { [script |-> [k |-> "absent"], title |-> NoneV, address |-> NoneV,
     amenities |-> NoneV],
    [script |-> [k |-> "json", v |-> StateOf(<<FullListable>>), semi |-> FALSE],
     title |-> NoneV, address |-> NoneV, amenities |-> NoneV] }

\* the listing extract_listing_details_with_html builds
MakeListing(url, html) ==
  [id |-> ListingId(url), url |-> url, html_content |-> html]

\* json.dump into listing_{id}.json: a file of that name is replaced
WriteListingFile(fs, listing) ==
  { f \in fs : f.id # listing.id } \cup {listing}

\* results.append(listing)
AppendResultInFront(rs, listing) == <<listing>> \o rs
AppendResult(rs, listing) == Append(rs, listing)

\* where the loop goes after a URL: the handler of a failed URL is
\* `continue`, so the next URL follows whether or not this one failed
AfterListingBreaks(i, n, failed) == IF failed THEN n ELSE i + 1
AfterListing(i, n, failed) == i + 1

\* `if not html_content:` : the browser is used when no fetch was made, when
\* the fetch failed (None) and when it returned an empty text
NeedsBrowserOnlyOnFailure(http) == http \in {"none", "fail"}
NeedsBrowser(http) == http # "ok"

\* one iteration of `for url in listing_urls`
MainProcess ==
  /\ entry = "main" /\ mpc = "loop" /\ idx < Len(listing_urls)
  /\ LET url == listing_urls[idx + 1] IN
     \E http \in (IF HasBuildingId(url) THEN HttpOutcomes ELSE {"none"}) :
       IF ~NeedsBrowser(http)
       THEN \* html_content was fetched: no browser is started
            \E writeFails \in BOOLEAN, html \in MainPayloads :
              /\ results' = AppendResult(results, MakeListing(url, html))
              /\ files' = IF writeFails THEN files
                          ELSE WriteListingFile(files, MakeListing(url, html))
              /\ cur' = [url |-> Some(url), http |-> http, browser |-> "none",
                         gets |-> 0, protChecks |-> 0, payload |-> Some(html),
                         appended |-> TRUE, written |-> ~writeFails]
              /\ UNCHANGED <<liveDrivers, nFailed>>
       ELSE \* `if not html_content:` : the browser fetch
            \E b \in BrowserOutcomes :
              IF b = "ok"
              THEN \E writeFails \in BOOLEAN, html \in MainPayloads :
                     /\ results' = AppendResult(results, MakeListing(url, html))
                     /\ files' = IF writeFails THEN files
                                 ELSE WriteListingFile(files, MakeListing(url, html))
                     /\ cur' = [url |-> Some(url), http |-> http, browser |-> b,
                                gets |-> BrowserGets(b),
                                protChecks |-> ProtectionChecks(b),
                                payload |-> Some(html),
                                appended |-> TRUE, written |-> ~writeFails]
                     /\ UNCHANGED <<liveDrivers, nFailed>>
              ELSE /\ cur' = [url |-> Some(url), http |-> http, browser |-> b,
                              gets |-> BrowserGets(b),
                              protChecks |-> ProtectionChecks(b),
                              payload |-> NoneV,
                              appended |-> FALSE, written |-> FALSE]
                   /\ liveDrivers' = liveDrivers + SetupLeak(b)
                   /\ nFailed' = nFailed + 1
                   /\ UNCHANGED <<results, files>>
  /\ idx' = AfterListing(idx, Len(listing_urls), ~cur'.appended)
  /\ UNCHANGED <<otherVars, argVars, discVars, mpc, ret, listing_urls, aggFiles,
                 jobVars>>

\* what main returns after the loop when `written` of the two aggregate
\* files were written: a failed write raises into the outer handler
AggregateResultIgnoresFailure(written) == "True"
AggregateResult(written) == IF written = 2 THEN "True" ELSE "False"

\* `if results:` : the aggregate files are written for a non-empty batch
WritesAggregateAlways(rs) == TRUE
WritesAggregate(rs) == rs # <<>>

\* after the loop: `if results:` the two aggregate files; return True; an
\* exception reaches the outer handler, which returns False
MainFinish ==
  /\ entry = "main" /\ mpc = "loop" /\ idx = Len(listing_urls)
  /\ mpc' = "done"
  /\ IF WritesAggregate(results)
     THEN \E written \in 0..2 :
            /\ aggFiles' = [i \in 1..written |-> results]
            /\ ret' = AggregateResult(written)
     ELSE aggFiles' = aggFiles /\ ret' = "True"
  /\ UNCHANGED <<otherVars, argVars, liveDrivers, discVars, listing_urls, idx, results,
                 files, cur, nFailed, jobVars>>

(* ------------------------------------------------------------------ *)
(* schedule.py: run_scraper_job runs web_scraper.py with os.system    *)
(* ------------------------------------------------------------------ *)
\* the exit status of the script once main has returned r or raised: the
\* __main__ block drops main's return value and handles every Exception,
\* so the interpreter ends normally
ScriptExitCode(r) == 0

\* `if exit_code != 0: logger.error(...) else: logger.info(...)`
JobLog(code) == IF code # 0 THEN "error" ELSE "success"

\* the script ends, os.system returns, the job logs the outcome
JobEnd ==
  /\ entry = "main" /\ mpc = "done" /\ jobLog = "none"
  /\ exit_code' = Some(ScriptExitCode(ret))
  /\ jobLog' = JobLog(ScriptExitCode(ret))
  /\ UNCHANGED <<otherVars, argVars, liveDrivers, discVars, mpc, ret, listing_urls,
                 idx, results, files, aggFiles, cur, nFailed>>

\* the command ends before main is called (the interpreter does not start,
\* an import of the script fails, the arguments are rejected)
JobLaunchFails ==
  /\ entry = "main" /\ mpc = "start" /\ jobLog = "none"
  /\ mpc' = "done"
  /\ \E code \in {1, 2} :
       /\ exit_code' = Some(code)
       /\ jobLog' = JobLog(code)
  /\ UNCHANGED <<otherVars, argVars, liveDrivers, discVars, ret, listing_urls,
                 idx, results, files, aggFiles, cur, nFailed>>

(* ------------------------------------------------------------------ *)
(* extract_listing_details                                            *)
(* ------------------------------------------------------------------ *)
\* leaving the function: `finally: if should_close_driver and driver: quit`
DetailsReturn(v) ==
  /\ epc' = "done"
  /\ eret' = v
  /\ liveDrivers' = liveDrivers - (IF should_close_driver THEN 1 ELSE 0)

\* `if not driver: driver = setup_driver(); should_close_driver = True`
DetailsSetup ==
  /\ entry = "details" /\ epc = "start"
  /\ IF driverGiven
     THEN /\ epc' = "attempt"
          /\ UNCHANGED <<should_close_driver, eret, liveDrivers>>
     ELSE \E o \in SetupOutcomes :
            IF o = "ok"
            THEN /\ epc' = "attempt"
                 /\ should_close_driver' = TRUE
                 /\ liveDrivers' = liveDrivers + 1
                 /\ eret' = eret
            ELSE \* the outer handler returns None; nothing to close
                 /\ epc' = "done"
                 /\ eret' = "None"
                 /\ liveDrivers' = liveDrivers + SetupLeak(o)
                 /\ UNCHANGED should_close_driver
  /\ UNCHANGED <<argVars, mainVars, discVars, searchVars, parseVars, protVars, driverGiven, eattempt,
                 wait_time, outcomes, navs, backoffs, parses>>

\* wait_time = (attempt + 1) * retry_delay
WaitTime(a) == (a + 1) * retry_delay

\* `if attempt < max_retries - 1` : sleep and retry, else raise
MayRetryOffByOne(a) == a < max_retries
MayRetry(a) == a < max_retries - 1

\* how one attempt can end: driver.get times out or raises something else,
\* the wait for body times out or raises, the page is a protection page,
\* page_source or the debug dump raises, parse_listing_details is reached
AttemptOutcomes == {"nav_timeout", "nav_error", "wait_timeout", "wait_error",
                    "protected", "page_error", "parsed"}

\* one iteration of `for attempt in range(max_retries)`
DetailsAttempt ==
  /\ entry = "details" /\ epc = "attempt" /\ eattempt < max_retries
  /\ navs' = navs + 1
  /\ \E o \in AttemptOutcomes :
       /\ outcomes' = Append(outcomes, o)
       /\ LET wt == IF o \in {"nav_timeout", "nav_error"}
                    THEN wait_time ELSE Some(WaitTime(eattempt))
              \* the except TimeoutException clause and the protection branch
              \* read wait_time; unbound, that is an UnboundLocalError, which
              \* the outer handler turns into None
              retry == /\ o \in {"nav_timeout", "wait_timeout", "protected"}
                       /\ MayRetry(eattempt)
                       /\ wt # NoneV
          IN  /\ wait_time' = wt
              /\ IF retry
                 THEN /\ backoffs' = backoffs + 1
                      /\ eattempt' = eattempt + 1
                      /\ IF eattempt + 1 < max_retries
                         THEN epc' = "attempt" /\ UNCHANGED <<eret, liveDrivers>>
                         ELSE \* the loop ran out: the function ends, returning None
                              DetailsReturn("None")
                      /\ UNCHANGED parses
                 ELSE IF o = "parsed"
                 THEN /\ parses' = parses + 1
                      /\ \E v \in {"None", "Listing"} : DetailsReturn(v)
                      /\ UNCHANGED <<backoffs, eattempt>>
                 ELSE /\ DetailsReturn("None")
                      /\ UNCHANGED <<backoffs, eattempt, parses>>
  /\ UNCHANGED <<argVars, mainVars, discVars, searchVars, parseVars, protVars, driverGiven,
                 should_close_driver>>

(* ------------------------------------------------------------------ *)
(* extract_search_results                                             *)
(* ------------------------------------------------------------------ *)
\* setup_driver is inside the try; `finally: try: driver.quit() except: pass`
\* quits the driver when there is one
SearchRun ==
  /\ entry = "search" /\ spc = "start"
  /\ spc' = "done"
  /\ \E o \in SetupOutcomes :
       IF o = "ok"
       THEN /\ \E r \in {"get_error", "no_data", "write_error", "data"} :
                 /\ sret' = IF r = "data" THEN "data" ELSE "None"
                 \* log_stats(data) follows the write of the raw data
                 /\ statsCalls' = statsCalls + (IF r = "data" THEN 1 ELSE 0)
            /\ liveDrivers' = liveDrivers + 1 - 1
       ELSE /\ sret' = "None"
            /\ statsCalls' = statsCalls
            /\ liveDrivers' = liveDrivers + SetupLeak(o)
  /\ UNCHANGED <<argVars, mainVars, discVars, detVars, parseVars, protVars>>

(* ------------------------------------------------------------------ *)
(* parse_listing_details                                              *)
(* ------------------------------------------------------------------ *)
ParseRun ==
  /\ entry = "parse" /\ ppc = "start"
  /\ ppc' = "done"
  /\ presult' = ParseListing(content, clock)
  /\ pexit' = ParseExit(ParseRaises(content, clock))
  /\ UNCHANGED <<argVars, liveDrivers, mainVars, discVars, detVars, searchVars,
                 protVars, content, clock, clock2, presult2>>

\* a second call with the same html_content, not earlier than the first
ParseAgain ==
  /\ entry = "parse" /\ ppc = "done"
  /\ ppc' = "done2"
  /\ \E now \in clock..MaxClock :
       /\ clock2' = now
       /\ presult2' = ParseListing(content, now)
       /\ pexit' = ParseExit(ParseRaises(content, now))
  /\ UNCHANGED <<argVars, liveDrivers, mainVars, discVars, detVars, searchVars,
                 protVars, content, clock, presult>>

(* ------------------------------------------------------------------ *)
(* is_protected_page                                                  *)
(* ------------------------------------------------------------------ *)
\* len(protection_indicators)
NumIndicators == 4

\* driver.find_elements(By.XPATH, indicator): no element, elements, or it
\* raises
FindOutcomes == {"none", "found", "raises"}

UpperChars == <<"A", "B", "C", "D", "E", "F", "G", "H", "I", "J", "K", "L", "M",
                "N", "O", "P", "Q", "R", "S", "T", "U", "V", "W", "X", "Y", "Z">>
LowerChars == <<"a", "b", "c", "d", "e", "f", "g", "h", "i", "j", "k", "l", "m",
                "n", "o", "p", "q", "r", "s", "t", "u", "v", "w", "x", "y", "z">>

\* s.lower()
LowerStr(s) ==
  [i \in 1..Len(s) |->
     IF \E j \in 1..26 : UpperChars[j] = s[i]
     THEN LowerChars[CHOOSE j \in 1..26 : UpperChars[j] = s[i]]
     ELSE s[i]]

\* sub in s
StrContains(s, sub) ==
  \E i \in 0..(Len(s) - Len(sub)) : SubSeq(s, i + 1, i + Len(sub)) = sub

CfMarker == <<"c", "f", "-">>
CloudflareMarker == <<"c", "l", "o", "u", "d", "f", "l", "a", "r", "e">>

\* what a read of driver.page_source yields: None when it raises, else the
\* text
PageSources ==
  { <<>>, <<"o", "k">>, <<"a", "c", "f", "-", "b">>, <<"C", "F", "-">>,
    <<"C", "l", "o", "u", "d", "F", "l", "a", "r", "e">> }
SourceReads == {NoneV} \cup { Some(t) : t \in PageSources }

\* the loop over the indicators: "found", "raises", or "none" when every
\* find_elements call returned an empty list
RECURSIVE IndicatorLoop(_, _)
IndicatorLoop(fs, i) ==
  IF i > Len(fs) THEN "none"
  ELSE IF fs[i] = "none" THEN IndicatorLoop(fs, i + 1)
  ELSE fs[i]

\* the Cloudflare test: page_source is read once for each operand of `or`
SourceTest(srcs) ==
  IF srcs[1] = NoneV THEN "raises"
  ELSE IF StrContains(srcs[1][1], CfMarker) THEN "found"
  ELSE IF srcs[2] = NoneV THEN "raises"
  ELSE IF StrContains(LowerStr(srcs[2][1]), CloudflareMarker) THEN "found"
  ELSE "none"

\* what the handler returns when a check raised
ProtectedOnErrorFalse == FALSE
ProtectedOnError == TRUE

\* is_protected_page(driver)
IsProtectedPage(fs, srcs) ==
  LET loop == IndicatorLoop(fs, 1)
  IN  IF loop = "found" THEN TRUE
      ELSE IF loop = "raises" THEN ProtectedOnError
      ELSE IF SourceTest(srcs) = "found" THEN TRUE
      ELSE IF SourceTest(srcs) = "raises" THEN ProtectedOnError
      ELSE FALSE

ProtectedRun ==
  /\ entry = "protect" /\ ipc = "start"
  /\ ipc' = "done"
  /\ iexit' = "returned"
  /\ iresult' = Some(IsProtectedPage(finds, sources))
  /\ UNCHANGED <<argVars, liveDrivers, mainVars, discVars, detVars, searchVars,
                 parseVars, finds, sources>>

(* ------------------------------------------------------------------ *)
(* Specification                                                      *)
(* ------------------------------------------------------------------ *)
vars == <<argVars, liveDrivers, mainVars, discVars, detVars, searchVars, parseVars,
          protVars>>

NoContent == [script |-> [k |-> "absent"], title |-> NoneV, address |-> NoneV,
              amenities |-> NoneV]

Entries == {"main", "details", "search", "parse", "protect"}

Init ==
  /\ entry \in Entries
  /\ limit \in (IF entry = "main" THEN Limits ELSE {NoneV})
  /\ use_fallback \in (IF entry = "main" THEN BOOLEAN ELSE {FALSE})
  /\ liveDrivers = 0
  /\ mpc = (IF entry = "main" THEN "start" ELSE "idle")
  /\ ret = "none" /\ listing_urls = <<>> /\ idx = 0 /\ results = <<>>
  /\ files = {} /\ aggFiles = <<>> /\ cur = NoCur /\ nFailed = 0
  /\ exit_code = NoneV /\ jobLog = "none"
  /\ dpc = "idle" /\ attempt = 0 /\ seen = {} /\ firstSeen = <<>> /\ readded = FALSE
  /\ scroll_attempts = 0 /\ previous_height = 0
  /\ loads = 0 /\ cookieClears = 0 /\ secondaryWaits = 0 /\ dresult = <<>>
  /\ epc = (IF entry = "details" THEN "start" ELSE "idle")
  /\ driverGiven \in (IF entry = "details" THEN BOOLEAN ELSE {FALSE})
  /\ should_close_driver = FALSE /\ eattempt = 0 /\ wait_time = NoneV
  /\ outcomes = <<>> /\ navs = 0 /\ backoffs = 0 /\ parses = 0 /\ eret = "none"
  /\ spc = (IF entry = "search" THEN "start" ELSE "idle")
  /\ sret = "none" /\ statsCalls = 0
  /\ ppc = (IF entry = "parse" THEN "start" ELSE "idle")
  /\ content \in (IF entry = "parse" THEN Contents ELSE {NoContent})
  /\ clock \in (IF entry = "parse" THEN 0..MaxClock ELSE {0})
  /\ pexit = "none" /\ presult = NoneV
  /\ clock2 = 0 /\ presult2 = NoneV
  /\ ipc = (IF entry = "protect" THEN "start" ELSE "idle")
  /\ finds \in (IF entry = "protect" THEN [1..NumIndicators -> FindOutcomes]
                ELSE {[i \in 1..NumIndicators |-> "none"]})
  /\ sources \in (IF entry = "protect" THEN [1..2 -> SourceReads]
                  ELSE {[i \in 1..2 |-> Some(<<>>)]})
  /\ iexit = "none" /\ iresult = NoneV

Next ==
  \/ MainStart
  \/ UrlsSetup
  \/ UrlsLoad
  \/ UrlsCheck
  \/ UrlsScroll
  \/ UrlsPost
  \/ FallbackDiscover
  \/ MainCheckUrls
  \/ MainProcess
  \/ MainFinish
  \/ JobEnd
  \/ JobLaunchFails
  \/ DetailsSetup
  \/ DetailsAttempt
  \/ SearchRun
  \/ ParseRun
  \/ ParseAgain
  \/ ProtectedRun

Spec == Init /\ [][Next]_vars

\* A run of main with the browser strategy, up to the return of
\* extract_listing_urls. The interpreter keeps running a function that has
\* a next step: weak fairness of the steps.
InitDiscovery == Init /\ entry = "main" /\ ~use_fallback

NextDiscovery ==
  \/ MainStart
  \/ UrlsSetup
  \/ UrlsLoad
  \/ UrlsCheck
  \/ UrlsScroll
  \/ UrlsPost

FairDiscoverySpec ==
  InitDiscovery /\ [][NextDiscovery]_vars /\ WF_vars(NextDiscovery)

(* ------------------------------------------------------------------ *)
(* Properties                                                         *)
(* ------------------------------------------------------------------ *)
MainReturned == mpc = "done" /\ ret \in {"True", "False"}

\* the aggregate files were to be written and one of the writes failed
AggregateWriteFailed == results # <<>> /\ Len(aggFiles) < 2

UrlsOf(rs) == [i \in 1..Len(rs) |-> rs[i].url]

\* s is t with some elements left out
RECURSIVE IsSubseq(_, _)
IsSubseq(s, t) ==
  IF s = <<>> THEN TRUE
  ELSE IF t = <<>> THEN FALSE
  ELSE IF Head(s) = Head(t) THEN IsSubseq(Tail(s), Tail(t))
  ELSE IsSubseq(s, Tail(t))

\* C1: with a limit N >= 0, under either strategy, discovery returns at most
\* N URLs and the batch holds at most N listings.
C1_LimitBoundsUrlsAndBatch ==
  limit # NoneV =>
    /\ dpc = "returned" => Len(dresult) <= limit[1]
    /\ Len(listing_urls) <= limit[1]
    /\ Len(results) <= limit[1]

NoBrowserFunctionRunning ==
  /\ dpc \in {"idle", "returned", "raised"}
  /\ epc \in {"idle", "start", "done"}

\* C4: every browser process started by setup_driver for a function has been
\* quit by the time the function returns or raises, on every exit path.
C4_DriversQuitOnEveryExit == NoBrowserFunctionRunning => liveDrivers = 0

AllProtected == \A i \in 1..Len(outcomes) : outcomes[i] = "protected"

\* C5: when every attempt of extract_listing_details finds a protection
\* page, the URL is loaded exactly 3 times, with a sleep between
\* consecutive attempts, nothing is parsed and None is returned.
C5_ProtectedThreeAttemptsThenNone ==
  (outcomes # <<>> /\ AllProtected) =>
    /\ navs = Len(outcomes) /\ parses = 0
    /\ epc = "attempt" => (backoffs = navs /\ navs < max_retries /\ eret = "none")
    /\ epc = "done" => (navs = 3 /\ backoffs = 2 /\ eret = "None")

C5_Witness == epc = "done" /\ Len(outcomes) = 3 /\ AllProtected

IsTimeout(o) == o \in {"nav_timeout", "wait_timeout"}

\* C6: a timeout on attempt k < 3, in driver.get or in the wait, is followed
\* by a backoff sleep and attempt k+1; after timeouts None is returned only
\* once the third attempt has timed out.
C6_TimeoutAlwaysRetried ==
  (epc = "done" /\ outcomes # <<>> /\ IsTimeout(outcomes[Len(outcomes)])) =>
    Len(outcomes) = max_retries

\* C7: the scroll loop of extract_listing_urls ends, for every limit and
\* every sequence of document heights.
C7_ScrollLoopEnds == (dpc = "scroll") ~> (dpc # "scroll")

\* C8: the batch is at every point a subsequence of the discovered URLs:
\* URLs are taken in discovery order, appended and written as they come.
C8_BatchInDiscoveryOrder ==
  /\ idx <= Len(listing_urls)
  /\ IsSubseq(UrlsOf(results), SubSeq(listing_urls, 1, idx))
  /\ idx > 0 => cur.url = Some(listing_urls[idx])
  /\ files \subseteq Range(results)

\* three URLs, the middle one skipped, the other two in the batch in order
C8_Witness ==
  /\ mpc = "done" /\ Len(listing_urls) = 3
  /\ UrlsOf(results) = <<listing_urls[1], listing_urls[3]>>
  /\ Cardinality(files) = 2

\* C9: parse_listing_details returns the record with exactly the absent,
\* empty-string and empty-collection fields removed and every other field
\* kept, also without floorplans, available units or embedded state.
C9_ReturnsNormalizedRecord ==
  (ppc = "done" /\ ~RawListing(content, clock).raised) =>
    /\ presult # NoneV
    /\ \A k \in DOMAIN RawListing(content, clock).listing :
         LET v == RawListing(content, clock).listing[k]
         IN  IF v \in {PyNone, PyStr(<<>>), PyList(<<>>)}
             THEN k \notin DOMAIN presult[1]
             ELSE k \in DOMAIN presult[1] /\ presult[1][k] = v

\* the units of the first listable of the content's state, <<>> without one
FirstListableOf(c) ==
  IF c.script.k = "json" /\ c.script.v.t = "dict"
     /\ FirstListable(c.script.v).found
     /\ FirstListable(c.script.v).v.t = "dict"
  THEN Some(FirstListable(c.script.v).v.d) ELSE NoneV

ListOf(d, k) == IF k \in DOMAIN d /\ d[k].t = "list" THEN d[k].xs ELSE <<>>

AvailableIn(units) == SelectSeq(units, UnitAvailable)

\* C10: a first listable with m >= 1 floorplans and k >= 1 available units
\* yields a Listing with m floorplans and the k available units, both in
\* source order, whatever else the listable carries.
C10_FloorplansAndAvailableUnits ==
  (ppc = "done" /\ FirstListableOf(content) # NoneV) =>
    LET l == FirstListableOf(content)[1]
        fps == ListOf(l, "floorplans")
        avail == AvailableIn(ListOf(l, "units"))
    IN  (Len(fps) >= 1 /\ Len(avail) >= 1) =>
          /\ presult # NoneV
          /\ presult[1]["floorplans"] = PyList(MapSeq(fps, MakeFloorplan))
          /\ presult[1]["available_units"] = PyList(MapSeq(avail, MakeUnit))

DigitVal(c) == CASE c = "0" -> 0 [] c = "1" -> 1 [] c = "2" -> 2 [] c = "3" -> 3
                 [] c = "4" -> 4 [] c = "5" -> 5 [] c = "6" -> 6 [] c = "7" -> 7
                 [] c = "8" -> 8 [] c = "9" -> 9

IsDigit(c) == c \in {"0", "1", "2", "3", "4", "5", "6", "7", "8", "9"}

\* the number a sequence of digits denotes
RECURSIVE DecValue(_)
DecValue(cs) == IF cs = <<>> THEN 0
                ELSE 10 * DecValue(SubSeq(cs, 1, Len(cs) - 1)) + DigitVal(cs[Len(cs)])

\* v is the str holding the decimal numeral of n >= 0: digits only, no
\* leading zero, denoting n
IsDecimalOf(v, n) ==
  /\ v.t = "str" /\ v.s # <<>>
  /\ \A i \in 1..Len(v.s) : IsDigit(v.s[i])
  /\ Len(v.s) > 1 => v.s[1] # "0"
  /\ DecValue(v.s) = n

\* the parser read the state and it has a first listable that is an object
ParsedFromListable ==
  /\ ppc = "done" /\ presult # NoneV
  /\ LoadState(content.script) # NoneV
  /\ FirstListableOf(content) # NoneV

IntField(d, k) == k \in DOMAIN d /\ d[k].t = "int" /\ d[k].n >= 0

\* C11: a Listing returned for a first listable with integer max_price = p
\* and max_bedrooms = b has price the decimal string of p and bedrooms the
\* decimal string of b.
C11_PriceAndBedroomsDecimal ==
  ParsedFromListable =>
    LET l == FirstListableOf(content)[1]
    IN  (IntField(l, "max_price") /\ IntField(l, "max_bedrooms")) =>
          /\ {"price", "bedrooms"} \subseteq DOMAIN presult[1]
          /\ IsDecimalOf(presult[1]["price"], l["max_price"].n)
          /\ IsDecimalOf(presult[1]["bedrooms"], l["max_bedrooms"].n)

\* a Listing for max_price = 2500 and max_bedrooms = 0
C11_Witness ==
  /\ ParsedFromListable
  /\ IntField(FirstListableOf(content)[1], "max_price")
  /\ FirstListableOf(content)[1]["max_price"].n = 2500
  /\ FirstListableOf(content)[1]["max_bedrooms"] = PyInt(0)
  /\ presult[1]["price"] = PyStr(<<"2", "5", "0", "0">>)
  /\ presult[1]["bedrooms"] = PyStr(<<"0">>)

\* C12: when the direct HTTP fetch is not possible or fails for a URL, the
\* browser acquisition for it checks the loaded page for protection and
\* makes up to 3 attempts before the URL is skipped: a timed-out attempt
\* ends the URL only when it was the third.
C12_BrowserAcquisitionRetries ==
  (cur.url # NoneV /\ cur.browser # "none") =>
    /\ cur.browser = "ok" => cur.protChecks >= 1
    /\ cur.browser = "timeout" => cur.gets = max_retries

\* C13: a record joins the batch exactly when the URL's payload parses,
\* and it is then the Listing parse_listing_details produces from it.
C13_BatchHoldsParsedListings ==
  (cur.url # NoneV /\ cur.payload # NoneV) =>
    LET parsed == ParseListing(cur.payload[1], clock)
    IN  IF parsed = NoneV THEN ~cur.appended
        ELSE cur.appended /\ results[Len(results)] = parsed[1]

\* C14: no two listings of the batch have the same id.
C14_BatchIdsUnique ==
  \A i, j \in 1..Len(results) : i # j => results[i].id # results[j].id

NoRepeats(s) == \A i, j \in 1..Len(s) : i # j => s[i] # s[j]

\* C15: the URL list discovery returns, under either strategy, holds no URL
\* twice, however often the same href was seen.
C15_DiscoveryReturnsNoDuplicates ==
  /\ dpc = "returned" => NoRepeats(dresult)
  /\ NoRepeats(listing_urls)

\* discovery returned two URLs, in the order of their discovery, after a
\* URL had been added that was already there
C15_Witness ==
  /\ dpc = "returned" /\ readded /\ Len(dresult) >= 2
  /\ dresult = firstSeen

\* C16: extract_listing_urls returns the URLs in the order in which they
\* were first discovered, the first N of them under a limit N.
C16_ReturnsInDiscoveryOrder ==
  (dpc = "returned" /\ ~use_fallback /\ dresult # <<>>) =>
    dresult = (IF limit = NoneV THEN firstSeen ELSE Take(firstSeen, limit[1]))

\* C17 as stated: every run whose discovery is non-empty has written, when
\* main returns, one aggregate artifact holding exactly the batch in batch
\* order, an empty batch included.
C17_AggregateAlwaysWritten ==
  (MainReturned /\ listing_urls # <<>>) =>
    (aggFiles # <<>> /\ \A i \in 1..Len(aggFiles) : aggFiles[i] = results)

\* C17 as amended: the aggregate files are written only after the last URL
\* was processed; a run that returns True with a non-empty batch has
\* written both, each holding exactly the batch in batch order; with an
\* empty batch none is written; a run that returns False after a non-empty
\* discovery failed in one of the two writes.
C17_AggregateWrittenForNonEmptyBatch ==
  /\ aggFiles # <<>> => (mpc = "done" /\ idx = Len(listing_urls))
  /\ \A i \in 1..Len(aggFiles) : aggFiles[i] = results
  /\ (MainReturned /\ listing_urls # <<>>) =>
       /\ results = <<>> => (aggFiles = <<>> /\ ret = "True")
       /\ (results # <<>> /\ ret = "True") => Len(aggFiles) = 2
       /\ ret = "False" => (results # <<>> /\ Len(aggFiles) < 2)

\* a run that skipped one URL and wrote both aggregate files with the two
\* listings of the batch
C17_Witness ==
  /\ MainReturned /\ ret = "True" /\ nFailed = 1
  /\ Len(results) = 2 /\ aggFiles = <<results, results>>

\* a run whose every URL failed: an empty batch and no aggregate file
C17_WitnessEmptyBatch ==
  /\ MainReturned /\ listing_urls # <<>> /\ results = <<>> /\ aggFiles = <<>>

\* C18: every run whose discovery is non-empty has computed and logged the
\* batch statistics by the time main returns.
C18_RunLogsBatchStatistics ==
  (MainReturned /\ listing_urls # <<>>) => statsCalls >= 1

\* C19: when the scraper run of a job failed (main returned False), the job
\* is logged as an error and not as completed successfully.
C19_FailedRunLoggedAsError ==
  (jobLog # "none" /\ ret = "False") => jobLog = "error"

\* a Listing: a record of some of the fields the parser initialises
IsListing(l) == DOMAIN l \subseteq DOMAIN DefaultListing(0)

\* C20: parse_listing_details never raises: for every content, with or
\* without an embedded state, it returns a Listing or None.
C20_ParseNeverRaises ==
  ppc = "done" =>
    /\ pexit = "returned"
    /\ presult = NoneV \/ IsListing(presult[1])

\* a state that is valid JSON but no object: .get raises, None is returned
C20_Witness ==
  /\ ppc = "done" /\ pexit = "returned" /\ presult = NoneV
  /\ content.script.k = "json" /\ content.script.v.t = "list"
  /\ RawListing(content, clock).raised

\* the checks up to and including the first that matches or raises
IndicatorsEvaluated ==
  { i \in 1..NumIndicators : \A j \in 1..(i - 1) : finds[j] = "none" }

AllIndicatorsClean == \A i \in 1..NumIndicators : finds[i] = "none"

\* C21: is_protected_page never raises; it returns True when a check it
\* makes finds a challenge marker, finds 'cf-' in the page source, finds
\* 'cloudflare' in it in any letter case, or raises; it returns False only
\* when every check was made and none matched.
C21_ProtectedUnlessAllChecksClean ==
  ipc = "done" =>
    /\ iexit = "returned" /\ iresult # NoneV
    /\ (\E i \in IndicatorsEvaluated : finds[i] # "none") => iresult[1]
    /\ (AllIndicatorsClean /\ sources[1] = NoneV) => iresult[1]
    /\ (AllIndicatorsClean /\ sources[1] # NoneV
          /\ StrContains(sources[1][1], CfMarker)) => iresult[1]
    /\ ~iresult[1] =>
         /\ AllIndicatorsClean
         /\ sources[1] # NoneV /\ sources[2] # NoneV
         /\ ~StrContains(sources[1][1], CfMarker)
         /\ \A i \in 0..(Len(sources[2][1]) - 10) :
              LowerStr(SubSeq(sources[2][1], i + 1, i + 10)) # CloudflareMarker

\* True for a page without a challenge marker whose source holds
\* 'CloudFlare'
C21_Witness ==
  /\ ipc = "done" /\ iresult = Some(TRUE) /\ AllIndicatorsClean
  /\ sources[1] = sources[2]
  /\ sources[1] = Some(<<"C", "l", "o", "u", "d", "F", "l", "a", "r", "e">>)

\* True because the third find_elements call raised
C21_WitnessRaises ==
  /\ ipc = "done" /\ iresult = Some(TRUE)
  /\ finds = <<"none", "none", "raises", "none">>
  /\ sources = <<Some(<<"o", "k">>), Some(<<"o", "k">>)>>

ScrollIteration == dpc = "scroll" /\ dpc' \in {"scroll", "post"}

\* C23: in every scroll iteration the stall counter grows by one when the
\* document height equals the recorded height and becomes 0 when it
\* differs, so it counts the stalled iterations since the last change; it
\* stays within 0..10 and the loop is left in the iteration in which it
\* reaches 10.
C23_StallCounterCountsStalls ==
  /\ [](scroll_attempts \in 0..max_scroll_attempts)
  /\ [](dpc = "scroll" => scroll_attempts < max_scroll_attempts)
  /\ [][ScrollIteration =>
          /\ previous_height' = previous_height =>
                scroll_attempts' = scroll_attempts + 1
          /\ previous_height' # previous_height => scroll_attempts' = 0
          /\ scroll_attempts' = max_scroll_attempts => dpc' = "post"]_vars

\* the loop was left with ten stalled iterations in a row
C23_Witness ==
  dpc = "post" /\ scroll_attempts = max_scroll_attempts /\ limit = NoneV

DiscoveryLoaded == dpc \in {"check", "scroll", "post"}

\* C24: extract_listing_urls loads the search URL at most 3 times; each of
\* the first two timeouts is followed by a cookie clearing (and its sleep)
\* before the next load; the secondary marker is waited for at most once,
\* and only after the third timeout; a return out of the load loop yields
\* the empty list with no scroll made; once a wait succeeded no further
\* load is made.
C24_LoadLoopBounded ==
  /\ [](/\ loads <= max_attempts
        /\ cookieClears <= max_attempts - 1 /\ secondaryWaits <= 1
        /\ secondaryWaits = 1 => (loads = max_attempts /\ cookieClears = 2)
        /\ dpc = "load" => (loads = cookieClears /\ secondaryWaits = 0
                               /\ loads < max_attempts)
        /\ DiscoveryLoaded => loads = cookieClears + 1
        /\ dpc \in {"load", "check"} => seen = {})
  /\ [][/\ (dpc = "load" /\ dpc' = "returned") => (dresult' = <<>> /\ seen' = {})
        /\ (DiscoveryLoaded /\ dpc' # "idle") => loads' = loads]_vars

\* three loads timed out, cookies were cleared twice, the secondary marker
\* was waited for, and the empty list was returned
C24_Witness ==
  /\ dpc = "returned" /\ loads = 3 /\ cookieClears = 2 /\ secondaryWaits = 1
  /\ dresult = <<>> /\ seen = {}

\* C25 as stated: a URL with a building id gets the direct HTTP fetch, and a
\* browser only if that fetch reported failure; a URL without one gets no
\* direct HTTP fetch.
C25_BrowserOnlyAfterHttpFailure ==
  cur.url # NoneV =>
    /\ HasBuildingId(cur.url[1]) <=> cur.http # "none"
    /\ (HasBuildingId(cur.url[1]) /\ cur.browser # "none") => cur.http = "fail"

\* C25 as amended: a URL with a building id gets the direct HTTP fetch, and
\* a browser exactly when that fetch reported failure or returned an empty
\* text; a URL without one gets no direct HTTP fetch and always a browser.
C25_BrowserAfterHttpFailureOrEmptyText ==
  cur.url # NoneV =>
    /\ HasBuildingId(cur.url[1]) <=> cur.http # "none"
    /\ cur.browser # "none" <=> cur.http \in {"none", "fail", "empty"}
    /\ cur.gets > 0 => cur.browser # "none"

\* the fetch for a building URL returned an empty text and the browser
\* fetched the page
C25_Witness ==
  /\ cur.url # NoneV /\ HasBuildingId(cur.url[1])
  /\ cur.http = "empty" /\ cur.browser = "ok" /\ cur.appended

\* C26: after every loop iteration each listing of the batch has its own
\* file in the run directory, so there are as many listing files as the
\* batch has listings.
C26_OneFilePerBatchListing ==
  mpc \in {"loop", "done"} =>
    /\ Range(results) \subseteq files
    /\ Cardinality(files) = Len(results)

IsDigitString(v) ==
  v.t = "str" /\ v.s # <<>> /\ \A i \in 1..Len(v.s) : IsDigit(v.s[i])

\* C27: in every Listing parse_listing_details returns, price is omitted or
\* a string of decimal digits, and it is omitted when the first listable
\* has no max_price or there is no listable.
C27_PriceOmittedOrDigits ==
  (ppc = "done" /\ presult # NoneV) =>
    /\ "price" \in DOMAIN presult[1] => IsDigitString(presult[1]["price"])
    /\ (FirstListableOf(content) = NoneV
         \/ "max_price" \notin DOMAIN FirstListableOf(content)[1]) =>
           "price" \notin DOMAIN presult[1]

====
